---- MODULE Spec2Model ----
(***************************************************************************)
(* Model of the Logger class of Script.js (BDWS website behaviour layer).  *)
(*                                                                         *)
(* Every Logger method runs synchronously on the single event-loop thread, *)
(* so each public method is one atomic action.  The host environment is    *)
(* modelled by three nondeterministic inputs: the reading of the           *)
(* performance clock, whether localStorage accepts a write, and whether    *)
(* localStorage accepts the removal of the key.                            *)
(*                                                                         *)
(* A LogEntry is modelled by its level, message and data.  The remaining   *)
(* fields (timestamp, userAgent, url) are opaque host strings that no      *)
(* Logger method reads back or branches on.                                *)
(***************************************************************************)
EXTENDS Integers, Sequences, FiniteSets, TLC

\* ---------------------------------------------------------------- bounds
MaxCalls == 3   \* public method calls in one behaviour
MaxClock == 1   \* largest reading of performance.now()
MaxCap   == 2   \* largest maxLogs option handed to the constructor
MaxScrollEvents == 3   \* scroll events in one behaviour of the page

\* ------------------------------------------------------- program constants
DefaultMaxLogs == 100

Undefined == "undefined"
Null      == "null"
Obj       == "obj"          \* some plain object payload
Err       == "err"          \* an Error instance, as passed at line 490

Levels   == {"debug", "info", "warn", "error", "success"}
\* argument lists (message, data) of the leveled methods
Args     == {[message |-> "a", data |-> Obj]}
\* logger.error is called with what was caught
ErrorArgs == {[message |-> "a", data |-> Err]}
\* "toString" is a key every object literal inherits from Object.prototype
Labels    == {"x", "toString"}
ProtoKeys == {"toString"}

NoItem == [present |-> FALSE, value |-> <<>>]
Item(v) == [present |-> TRUE, value |-> v]

VARIABLES
    enabled,            \* this.enabled
    level,              \* this.level
    logToConsole,       \* this.logToConsole
    logToStorage,       \* this.logToStorage
    maxLogs,            \* this.maxLogs
    logs,               \* this.logs
    performanceMarks,   \* this.performanceMarks: own keys only
    store,              \* localStorage item 'bdws_logs'
    console,            \* lines written by console.log / console.warn
    clock,              \* current reading of performance.now()
    optMaxLogs,         \* the maxLogs option the constructor was given
    download,           \* the document exportLogs last offered for download
    history,            \* entries recorded since construction / last clear
    last,               \* the last public call: name, argument, outcome
    calls,              \* number of public calls made
    parallax,           \* ParallaxEffect fields: scrollPosition, ticking
    frames,             \* update() callbacks queued by requestAnimationFrame
    scrollY,            \* window.scrollY
    styles,             \* style values written by ParallaxEffect.update
    updates,            \* number of update() runs so far
    maxScroll,          \* `maxScroll` of Analytics.trackScrollDepth
    scrolls             \* number of scroll events dispatched

vars == <<enabled, level, logToConsole, logToStorage, maxLogs, logs, performanceMarks,
          store, console, clock, optMaxLogs, download, history, last, calls,
          parallax, frames, scrollY, styles, updates, maxScroll, scrolls>>

\* ------------------------------------------------------------ JS helpers
Num(n)  == [kind |-> "number", value |-> n]
NaN     == [kind |-> "NaN", value |-> 0]
Undef   == [kind |-> "undefined", value |-> 0]
Func    == [kind |-> "function", value |-> 0]

\* ToBoolean on the values a mark lookup can yield
Truthy(v) ==
    \/ v.kind = "function"
    \/ v.kind = "number" /\ v.value # 0

\* obj[key] on this.performanceMarks, an object literal: own key first,
\* then the prototype chain
Lookup(marks, label) ==
    IF label \in DOMAIN marks THEN Num(marks[label])
    ELSE IF label \in ProtoKeys THEN Func
    ELSE Undef

\* number - mark
Minus(n, v) == IF v.kind = "number" THEN Num(n - v.value) ELSE NaN

\* Number.prototype.toFixed(2) on the integer clock readings of the model
ToFixed2(v) == IF v.kind = "number" THEN ToString(v.value) \o ".00" ELSE "NaN"

\* default parameter `data = null`
DefaultData(data) == IF data = Undefined THEN Null ELSE data

\* JSON.stringify of one entry and of the buffer
\* (an Error has no enumerable own property: it serializes as {})
JsonData(d) == IF d = Null THEN "null" ELSE IF d = Err THEN "{}" ELSE "{...}"
JsonEntry(e) == [level |-> e.level, message |-> e.message, data |-> JsonData(e.data)]
Stringify(buf) == [i \in 1..Len(buf) |-> JsonEntry(buf[i])]

\* ---------------------------------------------------------- constructor
OptionSpace ==
    [enabled : {Undefined, "true", "false"},
     level   : {Undefined},
     console : {Undefined, "true", "false"},
     storage : {Undefined, "true", "false"},
     maxLogs : {[given |-> FALSE, value |-> 0]}
               \cup {[given |-> TRUE, value |-> n] : n \in 0..MaxCap}]

\* options of enabled Loggers that differ in `level`
LevelOptionSpace ==
    [enabled : {"true"},
     level   : {Undefined, "debug", "error"},
     console : {"true"},
     storage : {"true", "false"},
     maxLogs : {[given |-> TRUE, value |-> n] : n \in 1..MaxCap}]

ctor_enabled(options) == options.enabled # "false"
ctor_level(options) == IF options.level = Undefined THEN "info" ELSE options.level
ctor_console(options) == options.console # "false"
ctor_storage(options) == options.storage = "true"
ctor_maxLogs(options) ==
    IF options.maxLogs.given /\ options.maxLogs.value # 0
    THEN options.maxLogs.value ELSE DefaultMaxLogs

\* what an earlier page session may have left under the key
StaleStore == {NoItem, Item(<<[level |-> "info", message |-> "old", data |-> "null"]>>)}

NoCall == [op |-> "new", arg |-> "", ret |-> Undef, thrown |-> FALSE, wrote |-> "none"]

\* ------------------------------------------------------- page components
Page == <<parallax, frames, scrollY, styles, updates, maxScroll, scrolls>>

\* lines 173-206: the style values update() writes for a scroll position
\* (tops of the two mountain layers in tenths of a pixel)
StylesAt(pos) ==
    [starsLeft |-> pos, moonTop |-> pos * 3,
     mountains3Top10 |-> pos * 15, mountains4Top10 |-> pos * 12,
     riverTop |-> pos, boatTop |-> pos, boatLeft |-> pos * 4,
     titleFontSize |-> IF pos + 30 < 60 THEN pos + 30 ELSE 60]

\* lines 144-159 and line 460: the components as constructed, page at the top
PageInit ==
    /\ parallax = [scrollPosition |-> 0, ticking |-> FALSE]
    /\ frames = 0
    /\ scrollY = 0
    /\ styles = StylesAt(0)
    /\ updates = 0
    /\ maxScroll = 0
    /\ scrolls = 0

InitFrom(Options, Stale) ==
    \E options \in Options, s \in Stale :
        /\ enabled = ctor_enabled(options)
        /\ level = ctor_level(options)
        /\ logToConsole = ctor_console(options)
        /\ logToStorage = ctor_storage(options)
        /\ maxLogs = ctor_maxLogs(options)
        /\ optMaxLogs = options.maxLogs
        /\ logs = <<>>
        /\ performanceMarks = <<>>
        /\ store = s
        /\ console = <<>>
        /\ clock = 0
        /\ download = NoItem
        /\ history = <<>>
        /\ last = NoCall
        /\ calls = 0
        /\ PageInit

Init == InitFrom(OptionSpace, StaleStore)

InitLevel == InitFrom(LevelOptionSpace, {NoItem})

\* ------------------------------------------------------------------ _log
\* the mutable state a call works on
Cur == [logs |-> logs, store |-> store, console |-> console, history |-> history]

\* lines 32-35 with pop() in place of shift(): the newest entry goes
Evict_pop(buf) == IF Len(buf) > maxLogs THEN SubSeq(buf, 1, Len(buf) - 1) ELSE buf

\* lines 32-35 with the limit tested one entry too late
Evict_offByOne(buf) == IF Len(buf) > maxLogs + 1 THEN Tail(buf) ELSE buf

\* lines 32-35: maintain the max logs limit
Evict(buf) == IF Len(buf) > maxLogs THEN Tail(buf) ELSE buf

WarnLine == [method |-> "warn", level |-> "", message |-> "Failed to save logs to storage:", data |-> "e"]

\* lines 37-44 where a failed write takes the new entry back out
SaveToStorage_rollback(st, writeOk) ==
    IF ~logToStorage THEN st
    ELSE IF writeOk THEN [st EXCEPT !.store = Item(Stringify(st.logs))]
    ELSE [st EXCEPT !.logs = SubSeq(@, 1, Len(@) - 1),
                    !.console = Append(@, WarnLine)]

\* lines 37-44 where only the new entry is added to the stored value
SaveToStorage_appendOnly(st, writeOk) ==
    IF ~logToStorage THEN st
    ELSE IF writeOk
         THEN [st EXCEPT !.store = Item(st.store.value
                                       \o Stringify(<<st.logs[Len(st.logs)]>>))]
    ELSE [st EXCEPT !.console = Append(@, WarnLine)]

\* lines 37-44: mirror the buffer to localStorage, catching a failed write
SaveToStorage(st, writeOk) ==
    IF ~logToStorage THEN st
    ELSE IF writeOk THEN [st EXCEPT !.store = Item(Stringify(st.logs))]
    ELSE [st EXCEPT !.console = Append(@, WarnLine)]

\* lines 46-55: console output; `data || ''`
ConsoleOutput(st, lvl, message, data) ==
    IF ~logToConsole THEN st
    ELSE [st EXCEPT !.console = Append(@,
            [method |-> "log", level |-> lvl, message |-> message,
             data |-> IF data = Null THEN "" ELSE data])]

\* lines 20-55: build the entry, push, evict, mirror, print
Record(st, lvl, message, dataArg, writeOk) ==
    LET data     == DefaultData(dataArg)
        logEntry == [level |-> lvl, message |-> message, data |-> data]
        pushed   == [st EXCEPT !.logs = Evict(Append(@, logEntry)),
                               !.history = Append(@, logEntry)]
    IN  ConsoleOutput(SaveToStorage(pushed, writeOk), lvl, message, data)

\* _log that drops the calls below the configured severity
Rank(l) == CASE l = "debug" -> 0 [] l = "warn" -> 2 [] l = "error" -> 3 [] OTHER -> 1
_log_levelFiltered(st, lvl, message, dataArg, writeOk) ==
    IF ~enabled \/ Rank(lvl) < Rank(level) THEN st
    ELSE Record(st, lvl, message, dataArg, writeOk)

\* _log without the `if (!this.enabled) return` of line 18
_log_ungated(st, lvl, message, dataArg, writeOk) ==
    Record(st, lvl, message, dataArg, writeOk)

_log(st, lvl, message, dataArg, writeOk) ==
    IF ~enabled THEN st
    ELSE Record(st, lvl, message, dataArg, writeOk)

\* what the call did with localStorage.setItem
Wrote(writeOk) ==
    IF enabled /\ logToStorage THEN (IF writeOk THEN "ok" ELSE "failed") ELSE "none"

Commit(st) ==
    /\ logs' = st.logs
    /\ store' = st.store
    /\ console' = st.console
    /\ history' = st.history

Config == <<enabled, level, logToConsole, logToStorage, maxLogs, optMaxLogs>>

\* ------------------------------------------------ public logging methods
Leveled(lvl, a, writeOk) ==
    /\ calls' = calls + 1
    /\ Commit(_log(Cur, lvl, a.message, a.data, writeOk))
    /\ last' = [op |-> lvl, arg |-> a.message, ret |-> Undef, thrown |-> FALSE,
                wrote |-> Wrote(writeOk)]
    /\ UNCHANGED <<Config, Page, performanceMarks, clock, download>>

debug ==
    \E a \in Args, writeOk \in BOOLEAN :
        /\ calls < MaxCalls
        /\ Leveled("debug", a, writeOk)
info ==
    \E a \in Args, writeOk \in BOOLEAN :
        /\ calls < MaxCalls
        /\ Leveled("info", a, writeOk)
warn ==
    \E a \in Args, writeOk \in BOOLEAN :
        /\ calls < MaxCalls
        /\ Leveled("warn", a, writeOk)
error ==
    \E a \in ErrorArgs, writeOk \in BOOLEAN :
        /\ calls < MaxCalls
        /\ Leveled("error", a, writeOk)
success ==
    \E a \in Args, writeOk \in BOOLEAN :
        /\ calls < MaxCalls
        /\ Leveled("success", a, writeOk)

\* ---------------------------------------------------- performance marks
startPerformance ==
    \E label \in Labels, writeOk \in BOOLEAN :
        /\ calls < MaxCalls
        /\ calls' = calls + 1
        /\ performanceMarks' =
              [l \in DOMAIN performanceMarks \cup {label} |->
                  IF l = label THEN clock ELSE performanceMarks[l]]
        /\ Commit(_log(Cur, "debug", "Performance tracking started: " \o label,
                       Undefined, writeOk))
        /\ last' = [op |-> "startPerformance", arg |-> label, ret |-> Undef,
                    thrown |-> FALSE, wrote |-> Wrote(writeOk)]
        /\ UNCHANGED <<Config, Page, clock, download>>

endPerformance ==
    \E label \in Labels, writeOk \in BOOLEAN :
        /\ calls < MaxCalls
        /\ calls' = calls + 1
        /\ LET mark == Lookup(performanceMarks, label)
               duration == Minus(clock, mark)
           IN  IF Truthy(mark)
               THEN /\ Commit(_log(Cur, "info",
                          "Performance: " \o label \o " completed in "
                              \o ToFixed2(duration) \o "ms",
                          Undefined, writeOk))
                    /\ performanceMarks' =
                          [l \in DOMAIN performanceMarks \ {label} |-> performanceMarks[l]]
                    /\ last' = [op |-> "endPerformance", arg |-> label, ret |-> duration,
                                thrown |-> FALSE, wrote |-> Wrote(writeOk)]
               ELSE /\ last' = [op |-> "endPerformance", arg |-> label, ret |-> Undef,
                                thrown |-> FALSE, wrote |-> "none"]
                    /\ UNCHANGED <<logs, store, console, history, performanceMarks>>
        /\ UNCHANGED <<Config, Page, clock, download>>

\* ------------------------------------------------------------- clearLogs
\* line 112 left out
Emptied_keep(st) == [st EXCEPT !.history = <<>>]

\* line 112: this.logs = []
Emptied(st) == [st EXCEPT !.logs = <<>>, !.history = <<>>]

\* lines 113-115 left out
RemoveItem_skip(st) == st

\* lines 113-115: localStorage.removeItem('bdws_logs') when mirroring
RemoveItem(st) == IF logToStorage THEN [st EXCEPT !.store = NoItem] ELSE st

clearLogs ==
    \E removeOk \in BOOLEAN, writeOk \in BOOLEAN :
        /\ calls < MaxCalls
        /\ calls' = calls + 1
        /\ IF logToStorage /\ ~removeOk
           THEN \* localStorage.removeItem throws: nothing catches it
                /\ Commit(Emptied(Cur))
                /\ last' = [op |-> "clearLogs", arg |-> "", ret |-> Undef,
                            thrown |-> TRUE, wrote |-> "none"]
           ELSE /\ Commit(_log(RemoveItem(Emptied(Cur)),
                               "info", "Logs cleared", Undefined, writeOk))
                /\ last' = [op |-> "clearLogs", arg |-> "", ret |-> Undef,
                            thrown |-> FALSE, wrote |-> Wrote(writeOk)]
        /\ UNCHANGED <<Config, Page, performanceMarks, clock, download>>

\* ------------------------------------------------------------ exportLogs
\* lines 121-127 run after line 128: the notice is logged first
ExportDocument_afterNotice(st) ==
    Item(Stringify(_log(st, "success", "Logs exported successfully", Undefined, TRUE).logs))

\* lines 121-127: the document offered for download
ExportDocument(st) == Item(Stringify(st.logs))

exportLogs ==
    \E writeOk \in BOOLEAN :
        /\ calls < MaxCalls
        /\ calls' = calls + 1
        /\ download' = ExportDocument(Cur)
        /\ Commit(_log(Cur, "success", "Logs exported successfully", Undefined, writeOk))
        /\ last' = [op |-> "exportLogs", arg |-> "", ret |-> Undef,
                    thrown |-> FALSE, wrote |-> Wrote(writeOk)]
        /\ UNCHANGED <<Config, Page, performanceMarks, clock>>

\* ------------------------------------------------------------ environment
\* time passes between two calls
Tick ==
    /\ calls < MaxCalls
    /\ clock < MaxClock
    /\ clock' = clock + 1
    /\ UNCHANGED <<Config, Page, logs, performanceMarks, store, console, download, history,
                   last, calls>>

Next ==
    \/ debug
    \/ info
    \/ warn
    \/ error
    \/ success
    \/ startPerformance
    \/ endPerformance
    \/ clearLogs
    \/ exportLogs
    \/ Tick

Spec == Init /\ [][Next]_vars

\* enabled Loggers of every `level`
SpecLevel == InitLevel /\ [][Next]_vars

\* =================================================================
\* The page: the shared logger, ParallaxEffect and Analytics under scroll
\* =================================================================
\* lines 133-138: the options of the page's logger
PageOptions ==
    [enabled |-> "true", level |-> "debug", console |-> "true", storage |-> "true",
     maxLogs |-> [given |-> FALSE, value |-> 0]]

\* document.documentElement.scrollHeight and window.innerHeight of the page
\* modelled, and the scroll offsets an event may report
Geometry == [scrollHeight |-> 200, innerHeight |-> 50]
ScrollStops == {0, 1, 20, 50, 51, 100, 150}

\* the logger after the constructors of the two components have logged
\* (line 162 and lines 439-443)
InitPage ==
    \E s \in StaleStore, w1 \in BOOLEAN, w2 \in BOOLEAN :
        /\ enabled = ctor_enabled(PageOptions)
        /\ level = ctor_level(PageOptions)
        /\ logToConsole = ctor_console(PageOptions)
        /\ logToStorage = ctor_storage(PageOptions)
        /\ maxLogs = ctor_maxLogs(PageOptions)
        /\ optMaxLogs = PageOptions.maxLogs
        /\ LET fresh == [logs |-> <<>>, store |-> s, console |-> <<>>, history |-> <<>>]
               st1 == _log(fresh, "debug", "Initializing parallax effect", Undefined, w1)
               st2 == _log(st1, "info", "Page view tracked", Obj, w2)
           IN  /\ logs = st2.logs
               /\ store = st2.store
               /\ console = st2.console
               /\ history = st2.history
               /\ last = [op |-> "info", arg |-> "Page view tracked", ret |-> Undef,
                          thrown |-> FALSE, wrote |-> Wrote(w2)]
        /\ performanceMarks = <<>>
        /\ clock = 0
        /\ download = NoItem
        /\ calls = 0
        /\ PageInit

\* lines 166-171 without `this.ticking = true`
RequestTick_noFlag(p) ==
    IF ~p.par.ticking THEN [p EXCEPT !.frames = @ + 1] ELSE p

\* lines 166-171: ParallaxEffect.requestTick on [par, frames]
RequestTick(p) ==
    IF ~p.par.ticking
    THEN [p EXCEPT !.frames = @ + 1, !.par.ticking = TRUE]
    ELSE p

\* line 463, times scrollHeight: scrollPercentage > m  <=>  Percent100(y) > m * scrollHeight
Percent100(y) == (y + Geometry.innerHeight) * 100
\* Math.floor(scrollPercentage)
FloorPercent(y) == Percent100(y) \div Geometry.scrollHeight

DepthMsg(P) == "Scroll depth: " \o ToString(P) \o "%"

\* lines 462-472: the scroll listener of trackScrollDepth on
\* [max, log], log being the logger state
TrackScrollDepth(a, y, writeOk) ==
    IF Percent100(y) > a.max * Geometry.scrollHeight
    THEN LET m == FloorPercent(y)
         IN  IF m % 25 = 0 /\ m > 0
             THEN [max |-> m, log |-> _log(a.log, "info", DepthMsg(m), Undefined, writeOk),
                   logged |-> TRUE]
             ELSE [max |-> m, log |-> a.log, logged |-> FALSE]
    ELSE [max |-> a.max, log |-> a.log, logged |-> FALSE]

\* a scroll event: window.scrollY has changed and the listeners of
\* lines 163 and 462 run (the listeners of Navigation and BackToTop only
\* toggle CSS classes)
Scroll ==
    \E y \in ScrollStops, writeOk \in BOOLEAN :
        /\ scrolls < MaxScrollEvents
        /\ scrolls' = scrolls + 1
        /\ scrollY' = y
        /\ LET p == RequestTick([par |-> parallax, frames |-> frames])
           IN  /\ parallax' = p.par
               /\ frames' = p.frames
        /\ LET a == TrackScrollDepth([max |-> maxScroll, log |-> Cur], y, writeOk)
           IN  /\ maxScroll' = a.max
               /\ Commit(a.log)
               /\ last' = IF a.logged
                          THEN [op |-> "info", arg |-> DepthMsg(a.max), ret |-> Undef,
                                thrown |-> FALSE, wrote |-> Wrote(writeOk)]
                          ELSE last
        /\ UNCHANGED <<Config, performanceMarks, clock, download, calls, styles, updates>>

\* lines 173-209: an animation frame runs the queued update()
Frame ==
    /\ frames > 0
    /\ frames' = frames - 1
    /\ parallax' = [scrollPosition |-> scrollY, ticking |-> FALSE]
    /\ styles' = StylesAt(scrollY)
    /\ updates' = updates + 1
    /\ UNCHANGED <<Config, logs, performanceMarks, store, console, clock, download,
                   history, last, calls, scrollY, maxScroll, scrolls>>

NextPage ==
    \/ Scroll
    \/ Frame

SpecPage == InitPage /\ [][NextPage]_vars

\* =================================================================
\* Properties
\* =================================================================
IsCall == calls' = calls + 1
LoggingOps == Levels \cup {"startPerformance", "endPerformance"}
Last(seq) == seq[Len(seq)]
LastN(seq, n) == SubSeq(seq, Len(seq) - n + 1, Len(seq))
LogLines == SelectSeq(console, LAMBDA c : c.method = "log")

\* ---- C1 ---------------------------------------------------------
\* C1: in every reachable state the buffer holds at most maxLogs entries,
\* and a leveled call made on a full buffer does not fail: the buffer
\* stays full, its old entries move up one place (the oldest is gone) and
\* the new entry is its last.
C1_FullAppendEvicts ==
    (IsCall /\ last'.op \in Levels /\ enabled /\ Len(logs) = maxLogs)
        => /\ ~last'.thrown
           /\ Len(logs') = maxLogs
           /\ SubSeq(logs', 1, maxLogs - 1) = Tail(logs)
           /\ Last(logs').level = last'.op
           /\ Last(logs').message = last'.arg

C1_BufferBounded == [](Len(logs) <= maxLogs) /\ [][C1_FullAppendEvicts]_vars

\* a leveled call has just evicted an entry from a full buffer
C1_Witness ==
    /\ last.op \in Levels
    /\ Len(logs) = maxLogs
    /\ Len(history) > maxLogs

\* ---- C2 ---------------------------------------------------------
OnlyLeveledCalls ==
    /\ Len(history) = calls
    /\ \A i \in 1..Len(history) : history[i].message \in {a.message : a \in Args}

\* C2: for every capacity supplied as the maxLogs option, after more than
\* that many leveled calls on an enabled Logger the buffer is exactly the
\* most recent `capacity` entries, oldest first.
C2_KeepsMostRecentCapacity ==
    (enabled /\ optMaxLogs.given /\ OnlyLeveledCalls /\ calls > optMaxLogs.value)
        => logs = LastN(history, optMaxLogs.value)

\* ---- C3 ---------------------------------------------------------
\* C3: on a disabled Logger no leveled call and no startPerformance /
\* endPerformance call changes the buffer, the persisted item or the
\* console output, whatever the storage and console switches are.
C3_Frame ==
    (IsCall /\ ~enabled /\ last'.op \in LoggingOps)
        => /\ logs' = logs
           /\ store' = store
           /\ console' = console

C3_DisabledIsNoOp == [][C3_Frame]_vars

\* a disabled Logger with both switches on and a stored item has run a
\* leveled call and has started a mark
C3_Witness ==
    /\ ~enabled /\ logToStorage /\ logToConsole
    /\ store.present
    /\ "x" \in DOMAIN performanceMarks
    /\ last.op \in Levels

\* ---- C4 ---------------------------------------------------------
\* the buffer after recording entry e into buffer buf
Recorded(buf, e) == IF Len(buf) < maxLogs THEN Append(buf, e) ELSE Append(Tail(buf), e)
\* the console line of entry e
LineOf(e) == [method |-> "log", level |-> e.level, message |-> e.message,
              data |-> IF e.data = Null THEN "" ELSE e.data]
\* the buffer the call starts recording into
BufferAtLog == IF last'.op = "clearLogs" THEN <<>> ELSE logs

\* C4: when the storage write of a logging call fails, nothing is thrown,
\* the entry stays in the buffer, a console warning is written, the entry's
\* console line (if console output is on) follows it, the stored item is
\* left as it was before the write, and the buffer is the one a successful
\* write would have left.
C4_Step ==
    (IsCall /\ last'.wrote = "failed")
        => /\ ~last'.thrown
           /\ history' # <<>>
           /\ logs' = Recorded(BufferAtLog, Last(history'))
           /\ console' = console \o <<WarnLine>>
                            \o (IF logToConsole THEN <<LineOf(Last(history'))>> ELSE <<>>)
           /\ last'.op \in Levels =>
                 /\ Last(logs').level = last'.op
                 /\ Last(logs').message = last'.arg
                 /\ store' = store
                 /\ \A a \in Args \cup ErrorArgs :
                       (a.message = last'.arg /\ a.data = Last(history').data) =>
                          logs' = _log(Cur, last'.op, a.message, a.data, TRUE).logs

C4_WriteFailureIsNonFatal == [][C4_Step]_vars

\* a leveled call on a full buffer whose storage write failed, with console on
C4_Witness ==
    /\ last.op \in Levels
    /\ last.wrote = "failed"
    /\ logToConsole
    /\ Len(history) > maxLogs
    /\ Last(logs) = Last(history)

\* ---- C5 ---------------------------------------------------------
\* C5: with enabled and storage on, whenever the write of a logging call
\* succeeds the stored item is the serialization of the whole buffer after
\* that call's append and eviction (new entry in, evicted entry out), in
\* place of the previous value; the console line comes after it.
C5_Step ==
    (IsCall /\ last'.wrote = "ok")
        => /\ enabled /\ logToStorage
           /\ history' # <<>>
           /\ logs' = Recorded(BufferAtLog, Last(history'))
           /\ store' = Item(Stringify(Recorded(BufferAtLog, Last(history'))))
           /\ console' = console
                            \o (IF logToConsole THEN <<LineOf(Last(history'))>> ELSE <<>>)

C5_StoreMirrorsBuffer == [][C5_Step]_vars

\* a successful write after an eviction, over an older stored value
C5_Witness ==
    /\ last.op \in Levels
    /\ last.wrote = "ok"
    /\ Len(history) > maxLogs
    /\ Len(logs) > 1
    /\ store = Item(Stringify(logs))

\* ---- C6 ---------------------------------------------------------
ClearedNotice == [level |-> "info", message |-> "Logs cleared", data |-> Null]

\* C6: right after clearLogs() the buffer is empty or holds exactly the
\* one info-level "Logs cleared" notice, whatever it held before and
\* whatever the configuration.
C6_ClearLeavesAtMostNotice ==
    last.op = "clearLogs" =>
        /\ Len(logs) <= 1
        /\ Len(logs) = 1 => logs = <<ClearedNotice>>
        /\ (enabled /\ ~last.thrown) => Len(logs) = 1

\* clearLogs() on a buffer of capacity > 1 after two recorded entries
C6_Witness ==
    /\ last.op = "clearLogs"
    /\ logs = <<ClearedNotice>>
    /\ maxLogs > 1
    /\ Len(LogLines) >= 3

\* ---- C7 ---------------------------------------------------------
\* C7 as stated: with storage mirroring on, when clearLogs() returns the
\* store holds no value under the log key.
C7_KeyAbsentAfterClear ==
    (last.op = "clearLogs" /\ ~last.thrown /\ logToStorage) => ~store.present

\* C7 amended: with storage mirroring on, when clearLogs() returns the
\* store holds no value under the log key if the Logger is disabled or the
\* write of the "Logs cleared" notice failed; otherwise it holds the
\* serialization of the buffer made of that one notice.  Nothing stored
\* before the clear remains.
C7_KeyRemovedThenNoticeMirrored ==
    (last.op = "clearLogs" /\ ~last.thrown /\ logToStorage)
        => store = IF last.wrote = "ok" THEN Item(Stringify(<<ClearedNotice>>))
                   ELSE NoItem

\* clearLogs() returned on a Logger whose first call had been mirrored
\* (no warning precedes its console line), and the notice's write failed:
\* the key is gone
C7_Witness ==
    /\ last.op = "clearLogs" /\ ~last.thrown
    /\ enabled /\ logToStorage /\ logToConsole
    /\ last.wrote = "failed"
    /\ Len(console) >= 3
    /\ console[1].method = "log"
    /\ ~store.present

\* ---- C8 ---------------------------------------------------------
StartedMsg(label) == "Performance tracking started: " \o label
IsEnd(label) == IsCall /\ last'.op = "endPerformance" /\ last'.arg = label

\* C8: for every label and every clock reading at which it was started
\* (0 included), endPerformance(label) on the started label returns
\* now - start, which is >= 0, records exactly one info-level entry (when
\* enabled) and removes the label from the pending marks.
C8_Step ==
    \A label \in Labels :
        (IsEnd(label) /\ label \in DOMAIN performanceMarks)
            => /\ last'.ret = Num(clock - performanceMarks[label])
               /\ last'.ret.value >= 0
               /\ label \notin DOMAIN performanceMarks'
               /\ enabled => /\ history' = Append(history, Last(history'))
                              /\ Last(history').level = "info"
               /\ ~enabled => logs' = logs

C8_EndReturnsElapsed == [][C8_Step]_vars

\* ---- C9 ---------------------------------------------------------
\* C9: endPerformance(label) on a label with no active mark returns no
\* value, adds no log entry and leaves the buffer, the store, the console
\* and the pending marks unchanged.
C9_Step ==
    \A label \in Labels :
        (IsEnd(label) /\ label \notin DOMAIN performanceMarks)
            => /\ last'.ret = Undef
               /\ logs' = logs
               /\ history' = history
               /\ store' = store
               /\ console' = console
               /\ performanceMarks' = performanceMarks

C9_EndWithoutMarkIsNoOp == [][C9_Step]_vars

\* ---- C10 --------------------------------------------------------
\* the two most recent recorded entries are both starts of label
StartedTwice(label) ==
    /\ enabled
    /\ Len(history) >= 2
    /\ history[Len(history)].message = StartedMsg(label)
    /\ history[Len(history) - 1].message = StartedMsg(label)
    /\ last.op = "startPerformance" /\ last.arg = label

\* the previous call ended label and returned a duration
JustEnded(label) ==
    last.op = "endPerformance" /\ last.arg = label /\ last.ret.kind = "number"

\* C10: marks are last-start-wins: a start overwrites the label's mark with
\* the current reading; after two starts of x, endPerformance(x) returns
\* now minus the second start and removes the mark; an endPerformance(x)
\* right after that is a no-op.
C10_Step ==
    \A label \in Labels :
        /\ (IsCall /\ last'.op = "startPerformance" /\ last'.arg = label)
              => /\ label \in DOMAIN performanceMarks'
                 /\ performanceMarks'[label] = clock
        /\ (IsEnd(label) /\ StartedTwice(label))
              => /\ last'.ret = Num(clock - performanceMarks[label])
                 /\ label \notin DOMAIN performanceMarks'
        /\ (IsEnd(label) /\ JustEnded(label))
              => /\ last'.ret = Undef
                 /\ logs' = logs
                 /\ performanceMarks' = performanceMarks

C10_LastStartWins == [][C10_Step]_vars

\* ---- C11 --------------------------------------------------------
\* JSON.parse of an exported document
EmptyObj == "{}"
ParseData(j) == IF j = "null" THEN Null ELSE IF j = "{}" THEN EmptyObj ELSE Obj
ParseEntry(j) == [level |-> j.level, message |-> j.message, data |-> ParseData(j.data)]
Parse(doc) == [i \in 1..Len(doc) |-> ParseEntry(doc[i])]

ExportedNotice == [level |-> "success", message |-> "Logs exported successfully",
                   data |-> Null]
IsExport == IsCall /\ last'.op = "exportLogs"

\* C11: the document exportLogs() produces is a JSON array as long as the
\* buffer at call time whose parsed entries equal the buffer's entries in
\* order; the success-level notice is appended after the document is made,
\* so it is not in the document, and the export changes the buffer in no
\* other way.
C11_Step ==
    IsExport
        => /\ download'.present
           /\ Len(download'.value) = Len(logs)
           /\ Parse(download'.value) = logs
           /\ logs' = IF enabled THEN Recorded(logs, ExportedNotice) ELSE logs

C11_JsonStep ==
    IsExport
        => /\ download'.present
           /\ Len(download'.value) = Len(logs)
           /\ \A i \in 1..Len(logs) :
                 LET parsed == Parse(download'.value)[i]
                 IN  /\ parsed.level = logs[i].level
                     /\ parsed.message = logs[i].message
                     /\ parsed.data = IF logs[i].data = Err THEN EmptyObj
                                      ELSE logs[i].data
           /\ logs' = IF enabled THEN Recorded(logs, ExportedNotice) ELSE logs

EntryOf(l) ==
    CASE l.op \in Levels ->
            [level |-> l.op, message |-> l.arg,
             data |-> IF l.op = "error" THEN Err ELSE Obj]
      [] l.op = "startPerformance" ->
            [level |-> "debug", message |-> StartedMsg(l.arg), data |-> Null]
      [] l.op = "endPerformance" ->
            [level |-> "info",
             message |-> "Performance: " \o l.arg \o " completed in "
                            \o ToFixed2(l.ret) \o "ms",
             data |-> Null]
      [] l.op = "clearLogs" -> ClearedNotice
      [] OTHER -> ExportedNotice

\* the call records an entry
Records(l) ==
    /\ ~l.thrown
    /\ l.op = "endPerformance" => l.ret.kind # "undefined"

\* C12: on an enabled Logger the configured level gates nothing: every
\* call at every severity is recorded, and the buffer, the stored item and
\* the console output after a call are functions of their values before
\* it, of the call and of the outcome of its storage write, the same for
\* every value of `level` (so Loggers that differ only in `level` stay
\* equal under the same calls).
C12_Step ==
    (IsCall /\ enabled /\ Records(last'))
        => LET e    == EntryOf(last')
               buf  == Recorded(BufferAtLog, e)
               kept == IF last'.op = "clearLogs" /\ logToStorage THEN NoItem ELSE store
           IN  /\ history' # <<>> /\ Last(history') = e
               /\ logs' = buf
               /\ store' = IF last'.wrote = "ok" THEN Item(Stringify(buf)) ELSE kept
               /\ console' = console
                      \o (IF last'.wrote = "failed" THEN <<WarnLine>> ELSE <<>>)
                      \o (IF logToConsole THEN <<LineOf(e)>> ELSE <<>>)

C12_LevelGatesNothing == [][C12_Step]_vars

\* a Logger configured with level 'error' has recorded, mirrored and
\* printed a debug call
C12_Witness ==
    /\ level = "error"
    /\ last.op = "debug"
    /\ Last(logs).level = "debug"
    /\ logToStorage /\ last.wrote = "ok" /\ store = Item(Stringify(logs))
    /\ logToConsole /\ Last(console).level = "debug"

\* ---- C13 --------------------------------------------------------
\* C13: no Logger call throws to its caller; in particular clearLogs()
\* with storage on never throws and always leaves the emptied buffer with
\* its notice recorded, even when the store rejects the removal of the key.
C13_NoCallThrows ==
    /\ ~last.thrown
    /\ (last.op = "clearLogs" /\ logToStorage /\ enabled) => logs = <<ClearedNotice>>

\* ---- C14 --------------------------------------------------------
Min(a, b) == IF a < b THEN a ELSE b

\* C14: in every reachable state the buffer is exactly the last
\* min(k, maxLogs) of the k entries recorded since the most recent
\* clearLogs (or since construction), in recording order.
C14_BufferIsTailOfHistory ==
    logs = LastN(history, Min(Len(history), maxLogs))

\* an enabled Logger of capacity 2 after three recorded entries, the last
\* one by exportLogs or a performance call: the oldest is gone
C14_Witness ==
    /\ enabled
    /\ maxLogs = 2
    /\ Len(history) = 3
    /\ last.op \in {"exportLogs", "startPerformance", "endPerformance"}
    /\ logs = <<history[2], history[3]>>
    /\ history[1] # history[2]

\* ---- C15 --------------------------------------------------------
\* a step that dispatches a scroll event
IsScroll == scrolls' = scrolls + 1

\* a scroll event leaves exactly one update() queued with the flag set, and
\* queues a new one when none was pending
C15_ScrollStep ==
    IsScroll
        => /\ frames' = 1
           /\ parallax'.ticking
           /\ (~parallax.ticking => frames' = frames + 1)

\* C15: for any interleaving of scroll events and animation frames at most
\* one update() is queued, `ticking` is true exactly while one is queued,
\* and a scroll event arriving when the last update() has run queues a new
\* one
C15_OneUpdatePending ==
    /\ [](frames <= 1 /\ (parallax.ticking <=> frames = 1))
    /\ [][C15_ScrollStep]_vars

\* an update() has run, the page was scrolled again and a new update() is
\* queued for the new offset
C15_Witness ==
    /\ updates >= 1
    /\ frames = 1
    /\ parallax.ticking
    /\ scrollY # parallax.scrollPosition
    /\ styles = StylesAt(parallax.scrollPosition)

\* ---- C16 --------------------------------------------------------
Milestones == {P \in 1..100 : P % 25 = 0}

\* how many recorded entries carry message m
TimesLogged(m) == Cardinality({i \in 1..Len(history) : history[i].message = m})

DepthMsgs == {DepthMsg(P) : P \in 0..100}

\* C16: the recorded maximum depth never decreases, "Scroll depth: P%" is
\* logged only for P a positive multiple of 25, and each milestone is
\* logged at most once
C16_MilestonesOnce ==
    /\ [][maxScroll' >= maxScroll]_vars
    /\ [](\A i \in 1..Len(history) :
             history[i].message \in DepthMsgs
                 => \E P \in Milestones : history[i].message = DepthMsg(P))
    /\ [](\A P \in Milestones : TimesLogged(DepthMsg(P)) <= 1)

====
